---- MODULE Spec2Model ----
(***************************************************************************)
(* The synthetic e-commerce pipeline: generate_data.py (entity generator   *)
(* and CSV exporter), ingest_to_sqlite.py (relational loader) and          *)
(* run_queries.py (report reader).                                         *)
(*                                                                         *)
(* Representation.  A money string with two fractional digits ("20.13")    *)
(* is the integer number of cents (2013).  A Decimal or float value before *)
(* quantisation is an integer number of mills (1/1000).  A datetime is a   *)
(* number of seconds, a "%Y-%m-%d" date string is a day number and a       *)
(* "%Y-%m-%d %H:%M:%S" string is a number of seconds.  A REAL column holds *)
(* a binary floating-point value [ip, fl]: integer part and the fraction   *)
(* bits that fit the significand, in groups of ten (limbs below 1024).     *)
(* Rows keep the key columns and                                           *)
(* the columns the generator, the loader's constraints and the report      *)
(* read; users' name/email/phone/created_at and products' category/stock   *)
(* are carried through the pipeline unchanged and are left out.            *)
(***************************************************************************)
EXTENDS Integers, Sequences, FiniteSets, TLC

VARIABLES
    env,        \* what the run's surroundings may do: the values the random
                \* source returns and how often the loader is started
    args,       \* argparse result of generate_data.main: users, products, orders
    gpc,        \* position of generate_data.main
    gerr,       \* exception that ended generate_data.main, or "none"
    users,      \* List[User]
    products,   \* List[Product]
    orders,     \* List[Order]
    items,      \* List[OrderItem]
    payments,   \* List[Payment]
    files,      \* the data directory: exists, which CSV files, their rows
    db,         \* committed contents of ecom.db: five tables
    txn,        \* the contents the loader's connection sees
    edited,     \* the data directory was rewritten since the loader last read it
    load,       \* log of the last run of ingest_to_sqlite.main
    report      \* result of run_queries.main on the current store, if it ran

vars == <<env, args, gpc, gerr, users, products, orders, items, payments, files, edited, db, txn, load, report>>

genVars == <<env, args, gpc, gerr, users, products, orders, items, payments>>

(***************************************************************************)
(* Bounds of the model.                                                    *)
(***************************************************************************)
MaxUsers == 2

MaxProducts == 2

MaxOrders == 2

MaxLoads == 3

\* The draws of the random source in the generator's specification.
\*   prices: random.uniform(20, 1200), in mills; each is a float with an exact
\*     three-digit decimal expansion (x.125, x.875), so Decimal(value) is
\*     exactly this number and the quantisation meets real ties;
\*   names: f"{random.choice(adjectives)} {random.choice(nouns)}";
\*   times: random_date(start_window, today - 1 day), in seconds from the
\*     midnight that starts the window's first day: 00:00:00 of day 0 and
\*     23:59:59 of day 1;
\*   hours: random.randint(1, 48), both ends; quantities: random.randint(1, 3);
\*   statuses, methods: random.choices(...), random.choice(...).
GenEnv ==
    [prices     |-> {20125, 1199875},
     names      |-> {"Aurora Laptop"},
     times      |-> {0, 172799},
     hours      |-> {1, 48},
     quantities |-> {1, 2, 3},
     statuses   |-> {"Completed"},
     methods    |-> {"PayPal"},
     loads      |-> 0]

\* The draws in the pipeline's specification: the products' names and prices
\* vary, the dates do not.
PipeEnv ==
    [prices     |-> {20125, 1199875},
     names      |-> {"Aurora Laptop", "Summit Laptop"},
     times      |-> {172799},
     hours      |-> {48},
     quantities |-> {1, 3},
     statuses   |-> {"Completed"},
     methods    |-> {"PayPal"},
     loads      |-> 1]

MaxItemsPerOrder == 4

SecondsPerHour == 3600

SecondsPerDay == 86400

MillsPerCent == 10

Min(a, b) == IF a <= b THEN a ELSE b

(***************************************************************************)
(* generate_data.py                                                        *)
(***************************************************************************)

\* money(value): Decimal(value).quantize(Decimal("0.01"), ROUND_HALF_UP),
\* from mills to the two-digit string (cents); values are non-negative.
money(mills) == (mills + (MillsPerCent \div 2)) \div MillsPerCent

\* Decimal(product.price): the exact value of a two-digit string, in mills.
DecimalOf(cents) == cents * MillsPerCent

\* The lists random.sample(products, k) can return: k distinct positions.
Samples(n, k) ==
    { s \in [1..k -> 1..n] : \A i, j \in 1..k : i # j => s[i] # s[j] }

RECURSIVE SumSeq(_)
SumSeq(s) == IF s = <<>> THEN 0 ELSE s[1] + SumSeq(Tail(s))

\* strftime("%Y-%m-%d") of a datetime: the day, time of day dropped.
DateStr(t) == t \div SecondsPerDay

\* strftime("%Y-%m-%d %H:%M:%S") of a datetime: the string names the second,
\* and datetimes are kept in whole seconds.
DateTimeStr(t) == t

FileNames == {"users", "products", "orders", "order_items", "payments"}

NoFiles ==
    [dir |-> FALSE, present |-> {}, users |-> <<>>, products |-> <<>>,
     orders |-> <<>>, order_items |-> <<>>, payments |-> <<>>]

\* ecom.db before sqlite3.connect ever created it.
EmptyDb ==
    [exists |-> FALSE, users |-> {}, products |-> {}, orders |-> {},
     order_items |-> {}, payments |-> {}]

\* The loader's position and the log of its last run: the committed store
\* it found (before) and the one the run before it had found (prev), what
\* it found of the data directory, whether the directory was the one the
\* run before had read.
NoLoad ==
    [pc |-> "idle", i |-> 1, runs |-> 0, err |-> "none", before |-> EmptyDb,
     prev |-> EmptyDb,
     src |-> [dir |-> FALSE, present |-> {}, consistent |-> FALSE], same |-> FALSE]

NoReport == [ran |-> FALSE, err |-> "none", rows |-> <<>>, nodata |-> FALSE]

\* main, lines 215-225: parse the arguments, create the data directory,
\* generate_users(args.users).
GenerateUsers ==
    /\ gpc = "start"
    /\ users' = [uid \in 1..args.users |-> [user_id |-> uid]]
    /\ files' = [files EXCEPT !.dir = TRUE]
    /\ gpc' = "products"
    /\ UNCHANGED <<env, args, gerr, products, orders, items, payments, edited, db, txn, load, report>>

\* generate_products(args.products)
GenerateProducts ==
    /\ gpc = "products"
    /\ \E nm \in [1..args.products -> env.names],
          bp \in [1..args.products -> env.prices] :
          products' = [pid \in 1..args.products |->
                          [product_id |-> pid, name |-> nm[pid], price |-> money(bp[pid])]]
    /\ gpc' = "orders"
    /\ UNCHANGED <<env, args, gerr, users, orders, items, payments, files, edited, db, txn, load, report>>

\* line_total with the quantity forgotten: line_total += unit_price.
LineTotalWithoutQuantity(sample, qty) ==
    SumSeq([i \in 1..Len(sample) |-> DecimalOf(products[sample[i]].price)])

\* line_total of one order: Decimal("0.00") plus unit_price * qty per product.
LineTotal(sample, qty) ==
    SumSeq([i \in 1..Len(sample) |-> DecimalOf(products[sample[i]].price) * qty[i]])

\* The OrderItem rows with order_id taken from the item counter.
NewItemsByItemCounter(oid, sample, qty) ==
    [i \in 1..Len(sample) |->
        [order_item_id |-> Len(items) + i,
         order_id      |-> Len(items) + i,
         product_id    |-> products[sample[i]].product_id,
         quantity      |-> qty[i],
         unit_price    |-> money(DecimalOf(products[sample[i]].price))]]

\* The OrderItem rows one iteration appends (lines 158-171).
NewItems(oid, sample, qty) ==
    [i \in 1..Len(sample) |->
        [order_item_id |-> Len(items) + i,
         order_id      |-> oid,
         product_id    |-> products[sample[i]].product_id,
         quantity      |-> qty[i],
         unit_price    |-> money(DecimalOf(products[sample[i]].price))]]

\* The Order row one iteration appends (lines 173-181).
NewOrder(oid, u, t, sample, qty) ==
    [order_id     |-> oid,
     user_id      |-> users[u].user_id,
     order_date   |-> DateStr(t),
     total_amount |-> money(LineTotal(sample, qty))]

\* The Payment row with order_id taken from the payments appended so far.
NewPaymentOffByOne(oid, t, sample, qty, st, m, h) ==
    [payment_id |-> Len(payments) + 1,
     order_id   |-> Len(payments),
     amount     |-> money(LineTotal(sample, qty)),
     method     |-> m,
     status     |-> st,
     paid_at    |-> DateTimeStr(t + h * SecondsPerHour)]

\* The Payment row with timedelta(seconds=...) for timedelta(hours=...).
NewPaymentSeconds(oid, t, sample, qty, st, m, h) ==
    [payment_id |-> Len(payments) + 1,
     order_id   |-> oid,
     amount     |-> money(LineTotal(sample, qty)),
     method     |-> m,
     status     |-> st,
     paid_at    |-> DateTimeStr(t + h)]

\* The Payment row one iteration appends (lines 183-195).
NewPayment(oid, t, sample, qty, st, m, h) ==
    [payment_id |-> Len(payments) + 1,
     order_id   |-> oid,
     amount     |-> money(LineTotal(sample, qty)),
     method     |-> m,
     status     |-> st,
     paid_at    |-> DateTimeStr(t + h * SecondsPerHour)]

\* One iteration of the loop of generate_orders (lines 153-196).
GenerateOrder ==
    /\ gpc = "orders"
    /\ Len(orders) < args.orders
    /\ Len(users) >= 1
    /\ Min(MaxItemsPerOrder, Len(products)) >= 1
    /\ LET oid == Len(orders) + 1 IN
       \E u \in 1..Len(users), t \in env.times,
          k \in 1..Min(MaxItemsPerOrder, Len(products)) :
       \E sample \in Samples(Len(products), k), qty \in [1..k -> env.quantities],
          st \in env.statuses, m \in env.methods, h \in env.hours :
          /\ items' = items \o NewItems(oid, sample, qty)
          /\ orders' = Append(orders, NewOrder(oid, u, t, sample, qty))
          /\ payments' = Append(payments, NewPayment(oid, t, sample, qty, st, m, h))
    /\ UNCHANGED <<env, args, gpc, gerr, users, products, files, edited, db, txn, load, report>>

\* An iteration that raises: random.choice of an empty user list (IndexError,
\* line 154), else random.randint(1, min(4, 0)) (ValueError, line 156).
GenerateOrderRaises ==
    /\ gpc = "orders"
    /\ Len(orders) < args.orders
    /\ \/ Len(users) < 1 /\ gerr' = "IndexError"
       \/ Len(users) >= 1 /\ Min(MaxItemsPerOrder, Len(products)) < 1 /\ gerr' = "ValueError"
    /\ gpc' = "error"
    /\ UNCHANGED <<env, args, users, products, orders, items, payments, files, edited, db, txn, load, report>>

\* main, lines 229-241: the five write_csv calls after generate_orders returned.
WriteFiles ==
    /\ gpc = "orders"
    /\ Len(orders) >= args.orders
    /\ files' = [dir |-> TRUE, present |-> FileNames, users |-> users,
                 products |-> products, orders |-> orders,
                 order_items |-> items, payments |-> payments]
    /\ gpc' = "done"
    /\ edited' = TRUE
    /\ UNCHANGED <<env, args, gerr, users, products, orders, items, payments, db, txn, load, report>>

Start(e) ==
    /\ env = e
    /\ args \in [users : 0..MaxUsers, products : (-1)..MaxProducts, orders : 0..MaxOrders]
    /\ gpc = "start"
    /\ gerr = "none"
    /\ users = <<>>
    /\ products = <<>>
    /\ orders = <<>>
    /\ items = <<>>
    /\ payments = <<>>
    /\ files = NoFiles
    /\ edited = FALSE
    /\ db = EmptyDb
    /\ txn = EmptyDb
    /\ load = NoLoad
    /\ report = NoReport

GenInit == Start(GenEnv)

GenNext ==
    \/ GenerateUsers
    \/ GenerateProducts
    \/ GenerateOrder
    \/ GenerateOrderRaises
    \/ WriteFiles

SpecGen == GenInit /\ [][GenNext]_vars

(***************************************************************************)
(* ingest_to_sqlite.py                                                     *)
(***************************************************************************)

\* Bits of the significand of a REAL column and of a Python float.
MantBits == 53

CentsPerUnit == 100

RECURSIVE BitLen(_)
BitLen(n) == IF n = 0 THEN 0 ELSE 1 + BitLen(n \div 2)

\* The zero bits that lead the binary expansion of rem/100, 0 < rem < 100.
RECURSIVE LeadingZeros(_)
LeadingZeros(rem) ==
    IF 2 * rem >= CentsPerUnit THEN 0 ELSE 1 + LeadingZeros(2 * rem)

\* The first m groups of ten bits of the binary expansion of rem/100, each
\* as a number below 1024, by long division.
RECURSIVE FracLimbs(_, _)
FracLimbs(rem, m) ==
    IF m = 0 THEN <<>>
    ELSE <<(rem * 1024) \div CentsPerUnit>>
           \o FracLimbs((rem * 1024) % CentsPerUnit, m - 1)

\* What is left of rem/100 after n bits of its binary expansion, times 2^n.
RECURSIVE RemAfter(_, _)
RemAfter(rem, n) ==
    IF n >= 10 THEN RemAfter((rem * 1024) % CentsPerUnit, n - 10)
    ELSE (rem * 2^n) % CentsPerUnit

\* One unit of the last kept place (amount, in units of limb j) added to a
\* limb string, carries going to the limbs before it and then to the
\* integer part.
RECURSIVE AddAt(_, _, _)
AddAt(limbs, j, amount) ==
    IF j = 0 THEN [limbs |-> limbs, carry |-> amount]
    ELSE LET t == limbs[j] + amount IN
         IF t < 1024 THEN [limbs |-> [limbs EXCEPT ![j] = t], carry |-> 0]
         ELSE AddAt([limbs EXCEPT ![j] = t - 1024], j - 1, 1)

\* float(text) of a two-digit decimal string: the nearest value with a
\* MantBits-bit significand, ties to even.  k fraction bits fit beside the
\* integer part; they fill q limbs, the last but for its `drop` low bits.
\* (Amounts are below 2^31, so k >= 22.)
ToFloat(cents) ==
    LET ip     == cents \div CentsPerUnit
        rem    == cents % CentsPerUnit
        k      == IF ip > 0 THEN MantBits - BitLen(ip)
                  ELSE IF rem > 0 THEN MantBits + LeadingZeros(rem)
                  ELSE MantBits
        q      == (k + 9) \div 10
        unit   == 2^(10 * q - k)
        full   == FracLimbs(rem, q + 1)
        left   == RemAfter(rem, 10 * (q + 1))
        tail   == (full[q] % unit) * 1024 + full[q + 1]
        half   == unit * 512
        odd    == (full[q] \div unit) % 2 = 1
        up     == tail > half \/ (tail = half /\ (left # 0 \/ odd))
        kept   == [j \in 1..q |-> IF j < q THEN full[j] ELSE full[q] - (full[q] % unit)]
        inc    == AddAt(kept, q, unit)
    IN  IF up THEN [ip |-> ip + inc.carry, fl |-> inc.limbs]
        ELSE [ip |-> ip, fl |-> kept]

PrimaryKey ==
    [users |-> "user_id", products |-> "product_id", orders |-> "order_id",
     order_items |-> "order_item_id", payments |-> "payment_id"]

\* The REFERENCES clauses of the schema (lines 37, 44, 45, 52).
ForeignKeys ==
    { [child |-> "orders",      col |-> "user_id",    parent |-> "users"],
      [child |-> "order_items", col |-> "order_id",   parent |-> "orders"],
      [child |-> "order_items", col |-> "product_id", parent |-> "products"],
      [child |-> "payments",    col |-> "order_id",   parent |-> "orders"] }

\* Every row of a child table references a row of its parent table.
FKConsistent(w) ==
    \A fk \in ForeignKeys : \A row \in w[fk.child] :
        \E p \in w[fk.parent] : p[PrimaryKey[fk.parent]] = row[fk.col]

\* clear_tables that leaves the users table alone.
ClearOrderKeepsUsers == <<"payments", "order_items", "orders", "products">>

\* clear_tables that deletes the parents before the children.
ClearOrderParentsFirst == <<"users", "products", "orders", "order_items", "payments">>

\* clear_tables, line 65: the tables in the order their rows are deleted.
ClearOrder == <<"payments", "order_items", "orders", "products", "users">>

\* main, lines 134-153: the tables in the order their rows are inserted.
InsertOrder == <<"users", "products", "orders", "order_items", "payments">>

\* DELETE FROM table with foreign_keys = ON: refused while a row of a child
\* table references a row of it.
DeleteFrom(w, table) ==
    IF \E fk \in ForeignKeys : /\ fk.parent = table
                               /\ \E row \in w[fk.child], p \in w[table] :
                                     row[fk.col] = p[PrimaryKey[table]]
    THEN [w |-> w, err |-> "IntegrityError: FOREIGN KEY constraint failed"]
    ELSE [w |-> [w EXCEPT ![table] = {}], err |-> "none"]

\* load_users .. load_payments: one CSV row as the tuple that is inserted.
ParseRow(table, row) ==
    CASE table = "users" -> row
      [] table = "products" -> [row EXCEPT !.price = ToFloat(row.price)]
      [] table = "orders" -> [row EXCEPT !.total_amount = ToFloat(row.total_amount)]
      [] table = "order_items" -> [row EXCEPT !.unit_price = ToFloat(row.unit_price)]
      [] table = "payments" -> [row EXCEPT !.amount = ToFloat(row.amount)]

\* cur.executemany("INSERT INTO table ...", load_table(DATA_DIR / "table.csv")):
\* the file is opened when the first row is asked for; a row is refused when
\* its key is taken or a parent row it references is absent.
InsertInto(w, f, table) ==
    LET rows   == f[table]
        key    == PrimaryKey[table]
        parsed == { ParseRow(table, rows[i]) : i \in 1..Len(rows) }
    IN  IF table \notin f.present
        THEN [w |-> w, err |-> "FileNotFoundError"]
        ELSE IF \/ \E i, j \in 1..Len(rows) : i # j /\ rows[i][key] = rows[j][key]
                \/ \E i \in 1..Len(rows), old \in w[table] : rows[i][key] = old[key]
        THEN [w |-> w, err |-> "IntegrityError: UNIQUE constraint failed"]
        ELSE IF \E fk \in ForeignKeys : /\ fk.child = table
                                        /\ \E i \in 1..Len(rows) :
                                              \A p \in w[fk.parent] :
                                                 p[PrimaryKey[fk.parent]] # rows[i][fk.col]
        THEN [w |-> w, err |-> "IntegrityError: FOREIGN KEY constraint failed"]
        ELSE [w |-> [w EXCEPT ![table] = w[table] \cup parsed], err |-> "none"]

\* The data directory holds the five files, every reference in them
\* resolves and no key is repeated.
RefConsistent(f) ==
    /\ f.dir
    /\ f.present = FileNames
    /\ \A fk \in ForeignKeys : \A i \in 1..Len(f[fk.child]) :
          \E j \in 1..Len(f[fk.parent]) :
             f[fk.parent][j][PrimaryKey[fk.parent]] = f[fk.child][i][fk.col]
    /\ \A t \in FileNames : \A i, j \in 1..Len(f[t]) :
          i # j => f[t][i][PrimaryKey[t]] # f[t][j][PrimaryKey[t]]

Stopped == load.pc \in {"idle", "done", "failed"}

\* An exception ends the loader: the process exits and what the connection
\* has not committed is rolled back.
Raise(err) ==
    /\ load' = [load EXCEPT !.pc = "failed", !.err = err]
    /\ txn' = db
    /\ UNCHANGED db

\* main, lines 126-130: the data directory is looked for, the store is
\* opened (and created), ensure_tables creates what tables are missing.
LoaderStart ==
    /\ gpc \in {"done", "error", "exited"}
    /\ Stopped
    /\ load.runs < env.loads
    /\ LET log == [pc     |-> "clear",
                   i      |-> 1,
                   runs   |-> load.runs + 1,
                   err    |-> "none",
                   before |-> db,
                   prev   |-> load.before,
                   src    |-> [dir |-> files.dir, present |-> files.present,
                               consistent |-> RefConsistent(files)],
                   same   |-> load.runs >= 1 /\ ~edited]
       IN  IF files.dir
           THEN /\ db' = [db EXCEPT !.exists = TRUE]
                /\ txn' = db'
                /\ load' = log
           ELSE /\ load' = [log EXCEPT !.pc = "failed", !.err = "SystemExit"]
                /\ UNCHANGED <<db, txn>>
    /\ edited' = FALSE
    /\ report' = NoReport
    /\ UNCHANGED <<genVars, files>>

\* clear_tables, lines 65-66: one DELETE of the loop.
ClearTable ==
    /\ load.pc = "clear"
    /\ load.i <= Len(ClearOrder)
    /\ LET d == DeleteFrom(txn, ClearOrder[load.i]) IN
       IF d.err = "none"
       THEN /\ txn' = d.w
            /\ load' = [load EXCEPT !.i = load.i + 1]
            /\ UNCHANGED db
       ELSE Raise(d.err)
    /\ UNCHANGED <<genVars, files, edited, report>>

\* clear_tables, line 67: conn.commit().
ClearCommit ==
    /\ load.pc = "clear"
    /\ load.i > Len(ClearOrder)
    /\ db' = txn
    /\ load' = [load EXCEPT !.pc = "insert", !.i = 1]
    /\ UNCHANGED <<genVars, files, edited, txn, report>>

\* main, lines 134-153: one executemany.
InsertTable ==
    /\ load.pc = "insert"
    /\ load.i <= Len(InsertOrder)
    /\ LET r == InsertInto(txn, files, InsertOrder[load.i]) IN
       IF r.err = "none"
       THEN /\ txn' = r.w
            /\ load' = [load EXCEPT !.i = load.i + 1]
            /\ UNCHANGED db
       ELSE Raise(r.err)
    /\ UNCHANGED <<genVars, files, edited, report>>

\* main, lines 154-161: conn.commit(), the row counts, conn.close().
LoadCommit ==
    /\ load.pc = "insert"
    /\ load.i > Len(InsertOrder)
    /\ db' = txn
    /\ load' = [load EXCEPT !.pc = "done"]
    /\ UNCHANGED <<genVars, files, edited, txn, report>>

(***************************************************************************)
(* run_queries.py                                                          *)
(***************************************************************************)

\* Multiplication by 100 of the binary fraction made of the limbs j..n:
\* the integer part of the product (carry) and the first limb of its fraction.
RECURSIVE MulLimbs(_, _, _)
MulLimbs(limbs, j, n) ==
    IF j > n THEN [carry |-> 0, low |-> 0]
    ELSE LET r == MulLimbs(limbs, j + 1, n)
             t == limbs[j] * CentsPerUnit + r.carry
         IN  [carry |-> t \div 1024, low |-> t % 1024]

\* The two-digit decimal string of x with the later digits cut off.
Printf2Truncating(x) ==
    LET m == MulLimbs(x.fl, 1, Len(x.fl))
    IN  x.ip * CentsPerUnit + m.carry

\* printf('%.2f', x) of a REAL: the two-digit decimal string nearest to x,
\* a half rounded up.
Printf2(x) ==
    LET m == MulLimbs(x.fl, 1, Len(x.fl))
    IN  x.ip * CentsPerUnit + m.carry + (IF m.low >= 512 THEN 1 ELSE 0)

\* The rows the joins of fetch_report produce, with the columns of the
\* ORDER BY; a row of order_items whose order has no payment is kept by the
\* LEFT JOIN with NULL payment columns.
Joined(d) ==
    { [user_id |-> u.user_id, order_id |-> o.order_id,
       order_item_id |-> oi.order_item_id, payment_id |-> pay.payment_id,
       product_name |-> p.name, quantity |-> oi.quantity,
       unit_price |-> Printf2(oi.unit_price),
       total_amount |-> Printf2(o.total_amount),
       payment_status |-> pay.status, payment_method |-> pay.method] :
      <<oi, o, u, p, pay>> \in
        { t \in d.order_items \X d.orders \X d.users \X d.products
                 \X (d.payments \cup {[payment_id |-> 0, order_id |-> 0,
                                       status |-> "N/A", method |-> "N/A"]}) :
            /\ t[1].order_id = t[2].order_id
            /\ t[2].user_id = t[3].user_id
            /\ t[1].product_id = t[4].product_id
            /\ IF \E y \in d.payments : y.order_id = t[2].order_id
               THEN t[5].payment_id # 0 /\ t[5].order_id = t[2].order_id
               ELSE t[5].payment_id = 0 } }

\* ORDER BY u.user_id, o.order_id, oi.order_item_id; rows equal under these
\* come in the order of the payments' rowids, as the join loop yields them.
Before(a, b) ==
    \/ a.user_id < b.user_id
    \/ a.user_id = b.user_id /\ a.order_id < b.order_id
    \/ a.user_id = b.user_id /\ a.order_id = b.order_id
         /\ a.order_item_id < b.order_item_id
    \/ a.user_id = b.user_id /\ a.order_id = b.order_id
         /\ a.order_item_id = b.order_item_id /\ a.payment_id <= b.payment_id

RECURSIVE Sorted(_)
Sorted(S) ==
    IF S = {} THEN <<>>
    ELSE LET first == CHOOSE a \in S : \A b \in S : Before(a, b)
         IN  <<first>> \o Sorted(S \ {first})

\* The nine columns of the SELECT list (the user's name is left out, see top).
Columns(j) ==
    [user_id |-> j.user_id, order_id |-> j.order_id, product_name |-> j.product_name,
     quantity |-> j.quantity, unit_price |-> j.unit_price,
     total_amount |-> j.total_amount, payment_status |-> j.payment_status,
     payment_method |-> j.payment_method]

fetch_report(d) ==
    LET s == Sorted(Joined(d)) IN [i \in 1..Len(s) |-> Columns(s[i])]

\* One run of run_queries.main.
Report ==
    /\ gpc \in {"done", "error", "exited"}
    /\ Stopped
    /\ ~report.ran
    /\ report' = IF ~db.exists
                 THEN [ran |-> TRUE, err |-> "SystemExit", rows |-> <<>>, nodata |-> FALSE]
                 ELSE LET rows == fetch_report(db)
                      IN  [ran |-> TRUE, err |-> "none", rows |-> rows,
                           nodata |-> rows = <<>>]
    /\ UNCHANGED <<genVars, files, edited, db, txn, load>>

(***************************************************************************)
(* The loader and the report on data directories of any content: what an   *)
(* earlier generator run, or whoever edits its files, left there.          *)
(***************************************************************************)

\* The data directories of the loader's specification are built from order
\* kinds: the user an order is for, how many items and how many payments it
\* has.  An order for user 2 dangles when only user 1 is exported; an order
\* may have no payment row, or two.
OrderKinds ==
    { [user |-> 1, nitems |-> 2, npay |-> 0],
      [user |-> 2, nitems |-> 1, npay |-> 2] }

KindPrices == <<2013, 119988>>

KindTotal(kind) == SumSeq(SubSeq(KindPrices, 1, kind.nitems))

RECURSIVE KindItems(_, _, _)
KindItems(kinds, k, acc) ==
    IF k > Len(kinds) THEN acc
    ELSE KindItems(kinds, k + 1,
            acc \o [j \in 1..kinds[k].nitems |->
                      [order_item_id |-> Len(acc) + j, order_id |-> k,
                       product_id |-> j, quantity |-> 1,
                       unit_price |-> KindPrices[j]]])

RECURSIVE KindPayments(_, _, _)
KindPayments(kinds, k, acc) ==
    IF k > Len(kinds) THEN acc
    ELSE KindPayments(kinds, k + 1,
            acc \o [j \in 1..kinds[k].npay |->
                      [payment_id |-> Len(acc) + j, order_id |-> k,
                       amount |-> KindTotal(kinds[k]), method |-> "PayPal",
                       status |-> "Completed", paid_at |-> SecondsPerHour]])

\* The directory with nu users, the two products and the orders of `kinds`,
\* without the files of `missing`.
DataDir(nu, kinds, missing) ==
    [dir         |-> TRUE,
     present     |-> FileNames \ missing,
     users       |-> [i \in 1..nu |-> [user_id |-> i]],
     products    |-> [i \in 1..Len(KindPrices) |->
                        [product_id |-> i, name |-> "Aurora Laptop",
                         price |-> KindPrices[i]]],
     orders      |-> [k \in 1..Len(kinds) |->
                        [order_id |-> k, user_id |-> kinds[k].user,
                         order_date |-> 0, total_amount |-> KindTotal(kinds[k])]],
     order_items |-> KindItems(kinds, 1, <<>>),
     payments    |-> KindPayments(kinds, 1, <<>>)]

SeqsUpTo(S, n) == UNION { [1..m -> S] : m \in 0..n }

DataDirs ==
    { DataDir(nu, kinds, missing) :
        nu \in 1..MaxUsers, kinds \in SeqsUpTo(OrderKinds, MaxOrders),
        missing \in {{}} \cup {{f} : f \in FileNames} }
    \cup {NoFiles}

LoadEnv == [GenEnv EXCEPT !.loads = MaxLoads]

\* The data directory is rewritten, once, between two runs of the loader.
ReplaceExport ==
    /\ load.pc \in {"done", "failed"}
    /\ load.runs < env.loads
    /\ ~edited
    /\ ~report.ran
    /\ \E f \in DataDirs : f # files /\ files' = f
    /\ edited' = TRUE
    /\ UNCHANGED <<genVars, db, txn, load, report>>

LoadInit ==
    /\ env = LoadEnv
    /\ args = [users |-> 0, products |-> 0, orders |-> 0]
    /\ gpc = "exited"
    /\ gerr = "none"
    /\ users = <<>>
    /\ products = <<>>
    /\ orders = <<>>
    /\ items = <<>>
    /\ payments = <<>>
    /\ files \in DataDirs
    /\ edited = FALSE
    /\ db = EmptyDb
    /\ txn = EmptyDb
    /\ load = NoLoad
    /\ report = NoReport

LoadNext ==
    \/ ReplaceExport
    \/ LoaderStart
    \/ ClearTable
    \/ ClearCommit
    \/ InsertTable
    \/ LoadCommit
    \/ Report

SpecLoad == LoadInit /\ [][LoadNext]_vars

(***************************************************************************)
(* The pipeline: generate and export, then load, then report.              *)
(***************************************************************************)
Init == Start(PipeEnv)

Next ==
    \/ GenerateUsers
    \/ GenerateProducts
    \/ GenerateOrder
    \/ GenerateOrderRaises
    \/ WriteFiles
    \/ LoaderStart
    \/ ClearTable
    \/ ClearCommit
    \/ InsertTable
    \/ LoadCommit
    \/ Report

Spec == Init /\ [][Next]_vars

(***************************************************************************)
(* The generator's properties (SpecGen).                                   *)
(***************************************************************************)

ItemsOf(oid) == LET Of(it) == it.order_id = oid IN SelectSeq(items, Of)

PaymentsOf(oid) == LET Of(p) == p.order_id = oid IN SelectSeq(payments, Of)

\* Round half up to two decimals, from mills to cents.
HalfUp2(mills) ==
    IF mills % MillsPerCent >= MillsPerCent \div 2
    THEN mills \div MillsPerCent + 1 ELSE mills \div MillsPerCent

\* C1: every order's total_amount is the sum, rounded half up to two
\* decimals, of its items' unit_price * quantity, each rounded half up to
\* two decimals.
C1_TotalIsRoundedItemSum ==
    \A k \in 1..Len(orders) :
       LET its == ItemsOf(orders[k].order_id)
           parts == [i \in 1..Len(its) |->
                       HalfUp2(its[i].unit_price * MillsPerCent * its[i].quantity)]
       IN  orders[k].total_amount = HalfUp2(SumSeq(parts) * MillsPerCent)

\* An exported order of two items, one of them with a quantity above one.
C1_Witness ==
    /\ gpc = "done"
    /\ \E k \in 1..Len(orders) :
          LET its == ItemsOf(orders[k].order_id)
          IN  /\ Len(its) = 2
              /\ its[1].quantity > 1
              /\ its[1].unit_price # its[2].unit_price

\* C2: every order_id of an item or a payment is that of a generated order,
\* every product_id of an item is that of a generated product, every
\* user_id of an order is that of a generated user.
C2_ReferencesResolve ==
    /\ \A i \in 1..Len(items) :
          /\ \E k \in 1..Len(orders) : orders[k].order_id = items[i].order_id
          /\ \E p \in 1..Len(products) : products[p].product_id = items[i].product_id
    /\ \A i \in 1..Len(payments) :
          \E k \in 1..Len(orders) : orders[k].order_id = payments[i].order_id
    /\ \A k \in 1..Len(orders) :
          \E u \in 1..Len(users) : users[u].user_id = orders[k].user_id

\* A finished run with two orders for different users, three items or more.
C2_Witness ==
    /\ gpc = "done"
    /\ Len(orders) = 2
    /\ orders[1].user_id # orders[2].user_id
    /\ Len(items) >= 3

\* C3: every generated order has exactly one payment, and its amount is the
\* order's total_amount.
C3_OnePaymentPerOrder ==
    \A k \in 1..Len(orders) :
       LET ps == PaymentsOf(orders[k].order_id)
       IN  Len(ps) = 1 /\ ps[1].amount = orders[k].total_amount

\* A finished run with two orders of different totals.
C3_Witness ==
    /\ gpc = "done"
    /\ Len(orders) = 2
    /\ orders[1].total_amount # orders[2].total_amount

\* C7: with product_count < 1 the run never completes and writes no entity
\* file.
C7_NoProductsNoDataset ==
    args.products < 1 => gpc # "done" /\ files.present = {}

MinPaidHours == 1

MaxPaidHours == 48

\* The time from the order_date field (a date: its midnight) to paid_at.
FieldGap(p, o) == p.paid_at - o.order_date * SecondsPerDay

\* C8 as stated: paid_at is later than the order_date field by at least 1
\* hour and at most 48 hours.
C8_PaidWithin48Hours ==
    \A i \in 1..Len(payments), k \in 1..Len(orders) :
       payments[i].order_id = orders[k].order_id =>
          /\ FieldGap(payments[i], orders[k]) > 0
          /\ FieldGap(payments[i], orders[k]) >= MinPaidHours * SecondsPerHour
          /\ FieldGap(payments[i], orders[k]) <= MaxPaidHours * SecondsPerHour

\* C8 amended: paid_at is later than the order_date field by at least 1 hour
\* and by less than 48 hours and a day: the field drops the order's time of
\* day, which the 1 to 48 hours are counted from.
C8_PaidWithin48HoursOfOrderTime ==
    \A i \in 1..Len(payments), k \in 1..Len(orders) :
       payments[i].order_id = orders[k].order_id =>
          /\ FieldGap(payments[i], orders[k]) > 0
          /\ FieldGap(payments[i], orders[k]) >= MinPaidHours * SecondsPerHour
          /\ FieldGap(payments[i], orders[k])
                < MaxPaidHours * SecondsPerHour + SecondsPerDay

\* A payment exactly one hour after the field and one more than 48 hours
\* after it.
C8_Witness ==
    /\ gpc = "done"
    /\ \E i \in 1..Len(payments), k \in 1..Len(orders) :
          /\ payments[i].order_id = orders[k].order_id
          /\ FieldGap(payments[i], orders[k]) = MinPaidHours * SecondsPerHour
    /\ \E i \in 1..Len(payments), k \in 1..Len(orders) :
          /\ payments[i].order_id = orders[k].order_id
          /\ FieldGap(payments[i], orders[k]) > MaxPaidHours * SecondsPerHour

(***************************************************************************)
(* The loader's and the report's properties (SpecLoad).                    *)
(***************************************************************************)

Tables(d) == [t \in FileNames |-> d[t]]

HasRows(d) == \E t \in FileNames : d[t] # {}

\* C4: a run that finds the data directory or one of the five files missing
\* ends in an error and leaves the committed rows as they were.
C4_FailedLoadKeepsStore ==
    ( /\ Stopped
      /\ load.runs >= 1
      /\ HasRows(load.before)
      /\ ~load.src.dir \/ Cardinality(FileNames \ load.src.present) = 1 )
    => load.pc = "failed" /\ Tables(db) = Tables(load.before)

\* C5: a run on the data directory the run before it read leaves the store
\* as that run left it.
C5_SecondLoadChangesNothing ==
    (Stopped /\ load.runs >= 2 /\ load.same) => Tables(db) = Tables(load.before)

\* A second successful run on the same directory, the first of the two
\* having found other rows in the store.
C5_Witness ==
    /\ load.pc = "done"
    /\ load.runs >= 2
    /\ load.same
    /\ db.order_items # {}
    /\ HasRows(load.prev)
    /\ Tables(load.prev) # Tables(db)

\* C9: the report has one row per row of order_items, and an item whose
\* order has no payment is in it with "N/A" for status and method.
C9_OneRowPerOrderItem ==
    (report.ran /\ report.err = "none") =>
       /\ Len(report.rows) = Cardinality(db.order_items)
       /\ \A oi \in db.order_items :
             (\A pay \in db.payments : pay.order_id # oi.order_id) =>
                \E i \in 1..Len(report.rows) :
                   /\ report.rows[i].order_id = oi.order_id
                   /\ report.rows[i].quantity = oi.quantity
                   /\ report.rows[i].payment_status = "N/A"
                   /\ report.rows[i].payment_method = "N/A"

\* C10: while a referentially consistent directory is loaded, the tables
\* are emptied children first and filled parents first, no statement is
\* refused, and every reference the connection sees resolves.
C10_DependencyOrder ==
    (load.runs >= 1 /\ load.src.consistent) =>
       /\ load.err = "none"
       /\ FKConsistent(txn)
       /\ load.pc = "clear" =>
             LET deleted == <<"payments", "order_items", "orders", "products", "users">>
             IN  /\ load.i <= Len(deleted) + 1
                 /\ \A j \in 1..Len(deleted) :
                       txn[deleted[j]] = IF j < load.i THEN {} ELSE load.before[deleted[j]]
       /\ load.pc = "insert" =>
             LET inserted == <<"users", "products", "orders", "order_items", "payments">>
             IN  /\ load.i <= Len(inserted) + 1
                 /\ \A j \in 1..Len(inserted) :
                       Cardinality(txn[inserted[j]])
                          = IF j < load.i THEN Len(files[inserted[j]]) ELSE 0

\* Orders are inserted into a store whose earlier rows were deleted.
C10_Witness ==
    /\ load.src.consistent
    /\ load.pc = "insert"
    /\ load.i = 4
    /\ txn.orders # {}
    /\ load.before.payments # {}
    /\ load.before.order_items # {}

(***************************************************************************)
(* The round trip (Spec).                                                  *)
(***************************************************************************)

ProductName(pid) ==
    (CHOOSE p \in {products[i] : i \in 1..Len(products)} : p.product_id = pid).name

Line(name, qty, price) == [product |-> name, quantity |-> qty, unit_price |-> price]

GeneratedLines(oid) ==
    LET its == ItemsOf(oid)
    IN  [i \in 1..Len(its) |->
           Line(ProductName(its[i].product_id), its[i].quantity, its[i].unit_price)]

ReportRows(oid) == LET Of(r) == r.order_id = oid IN SelectSeq(report.rows, Of)

ReportLines(oid) ==
    LET rs == ReportRows(oid)
    IN  [i \in 1..Len(rs) |-> Line(rs[i].product_name, rs[i].quantity, rs[i].unit_price)]

\* C6: after generate, export, load and report, the report holds for every
\* order the items that were generated, with their quantities and prices,
\* and the order's total, and nothing else.
C6_RoundTrip ==
    (gpc = "done" /\ load.pc = "done" /\ report.ran) =>
       /\ report.err = "none"
       /\ Len(report.rows) = Len(items)
       /\ \A k \in 1..Len(orders) :
             /\ ReportLines(orders[k].order_id) = GeneratedLines(orders[k].order_id)
             /\ \A i \in 1..Len(ReportRows(orders[k].order_id)) :
                   /\ ReportRows(orders[k].order_id)[i].total_amount = orders[k].total_amount
                   /\ ReportRows(orders[k].order_id)[i].user_id = orders[k].user_id

\* A report on two orders, the later one for the user that sorts first, with
\* two products of one name in one order.
C6_Witness ==
    /\ gpc = "done"
    /\ load.pc = "done"
    /\ report.ran
    /\ Len(orders) = 2
    /\ orders[2].user_id < orders[1].user_id
    /\ Len(ItemsOf(1)) = 2
    /\ ProductName(1) = ProductName(2)
    /\ \E i \in 1..Len(items) : items[i].quantity > 1

====
